---- MODULE Spec2Model ----
(***************************************************************************)
(* Model of eatlink_bot.                                                   *)
(*                                                                         *)
(*  - src/src/main.rs: the ingestion handler (tx.send on a bounded mpsc    *)
(*    channel), consumer_loop (tokio::select! between receiver.recv() and  *)
(*    a fresh sleep(RECEIVE_TIMEOUT)), the tasks it spawns (lock the       *)
(*    ConsumerState mutex, set the reply target, download, push a line)    *)
(*    and the flush done by the timer branch.                              *)
(*  - src/src/media_group.rs: MEDIA_GROUP_CACHE, handle_media_group,       *)
(*    process_media and clean_cache.  The module is not referenced from    *)
(*    main.rs, so it is a state machine of its own (SpecCache).            *)
(***************************************************************************)
EXTENDS Integers, Sequences, FiniteSets, TLC

\* ------------------------------------------------------------------ bounds
\* Messages delivered to the ingestion handler over a run.
MaxMsgs == 3
\* Messages the consumer loop dequeues over a run (one spawned task each).
MaxTasks == 2
\* Saturation value of the ghost clock sinceTick.
MaxClock == 3
\* Capacity of the mpsc channel: channel(20) in the source, scaled down.
QueueCap == 2
\* Longest member list of one media group.
MaxGroupLen == 3
\* Handlers of handle_media_group that may be suspended between their branches.
MaxInflight == 1

\* ------------------------------------------------------- program constants
RECEIVE_TIMEOUT == 2
GroupThreshold == 2

None == 0
Chats == {1, 2}
Kinds == {"photo", "video", "none"}
Groups == {1, 2}
Files == {1}

ConsumerHolds == -1
Unlocked == 0

VARIABLES
    submitted,   \* messages delivered to the repl handler so far (ids 1..submitted)
    queue,       \* ids buffered in the mpsc channel, oldest first
    pending,     \* ids whose tx.send(msg).await is suspended, oldest first
    closedErr,   \* ids whose tx.send returned Err (receiver dropped): unwrap panics
    dropped,     \* ids that were buffered when the receiver was dropped
    pc,          \* consumer_loop: "select" | "lock_wait" | "sending" | "dead"
    elapsed,     \* seconds since the current sleep(RECEIVE_TIMEOUT) was created
    sinceTick,   \* ghost: seconds since the timer branch last won (saturating)
    lock,        \* holder of the ConsumerState mutex
    state,       \* ConsumerState
    tasks,       \* spawned tasks, indexed by the id of their message
    batch,       \* ghost: tasks that locked the mutex since the last delivered reply
    sent,        \* replies delivered by bot.send_message, oldest first
    sendCalls,   \* calls of bot.send_message so far
    lastTick,    \* ghost: what the last timer branch found: "none" | "noop" | "flush"
    appended,    \* ghost: every line pushed onto statics, in push order
    cache,       \* MEDIA_GROUP_CACHE: group id -> sequence of media
    inflight,    \* handle_media_group calls suspended before their video branch
    lastOp,      \* ghost: last operation on the cache: "init" | "record" | "sweep"
    removed,     \* ghost: group ids the last sweep removed
    recorded,    \* ghost: per group id, the media recorded since its entry was last absent
    lastStep     \* ghost: the last cache step and the message it handled

consumerVars == <<submitted, queue, pending, closedErr, dropped, pc, elapsed,
                  sinceTick, lock, state, tasks, batch, sent, sendCalls, lastTick,
                  appended>>
cacheVars == <<cache, inflight, lastOp, removed, recorded, lastStep>>
vars == <<consumerVars, cacheVars>>

\* ------------------------------------------------------------- pure helpers
\* Variant: the later value always wins.
OrOpt_Overwrite(a, b) == b

\* Option::or
OrOpt(a, b) == IF a # None THEN a ELSE b

EmptyState == [reply_chat_id |-> None, reply_message_id |-> None, statics |-> <<>>]

NL == "\n"

\* Vec<String>::join("\n") over lines that are sequences of tokens.
RECURSIVE Join(_)
Join(lines) ==
    IF lines = <<>> THEN <<>>
    ELSE IF Len(lines) = 1 THEN lines[1]
    ELSE lines[1] \o <<NL>> \o Join(Tail(lines))

\* Lines of a text: none for the empty text, else one more than its newlines.
NumLines(text) ==
    IF text = <<>> THEN 0
    ELSE 1 + Cardinality({k \in 1..Len(text) : text[k] = NL})

\* download(): the status line of a successful fetch.
Status(msg, kind) ==
    CASE kind = "photo" -> <<"photo", ToString(msg.id), "ok">>
      [] kind = "video" -> <<"video", ToString(msg.id), "ok">>
      [] OTHER -> <<"No media download">>

\* download(): Ok(line) or Err, the I/O outcome being an input.
Download(msg, kind, ioOk) ==
    IF ioOk THEN [ok |-> TRUE, val |-> Status(msg, kind)]
    ELSE [ok |-> FALSE, val |-> <<>>]

Range(s) == {s[k] : k \in 1..Len(s)}

\* -------------------------------------------------------------------- Init
Init ==
    /\ submitted = 0
    /\ queue = <<>>
    /\ pending = <<>>
    /\ closedErr = {}
    /\ dropped = {}
    /\ pc = "select"
    /\ elapsed = 0
    /\ sinceTick = 0
    /\ lock = Unlocked
    /\ state = EmptyState
    /\ tasks = <<>>
    /\ batch = <<>>
    /\ sent = <<>>
    /\ sendCalls = 0
    /\ lastTick = "none"
    /\ appended = <<>>
    /\ cache = <<>>
    /\ inflight = {}
    /\ lastOp = "init"
    /\ removed = {}
    /\ recorded = [g \in Groups |-> <<>>]
    /\ lastStep = [op |-> "init", group |-> None, photo |-> None, video |-> None]

\* ------------------------------------------------------- ingestion boundary
\* Variant: a try_send whose failure on a full channel is ignored.
Submit_DropWhenFull ==
    /\ submitted < MaxMsgs
    /\ submitted' = submitted + 1
    /\ IF pc = "dead"
         THEN /\ closedErr' = closedErr \cup {submitted + 1}
              /\ UNCHANGED <<queue, pending>>
         ELSE IF Len(queue) < QueueCap /\ pending = <<>>
         THEN /\ queue' = Append(queue, submitted + 1)
              /\ UNCHANGED <<pending, closedErr>>
         ELSE UNCHANGED <<queue, pending, closedErr>>
    /\ UNCHANGED <<dropped, pc, elapsed, sinceTick, lock, state, tasks, batch,
                   sent, sendCalls, lastTick, appended,
                   cacheVars>>

\* repl handler: tx.send(msg).await.unwrap()
Submit ==
    /\ submitted < MaxMsgs
    /\ submitted' = submitted + 1
    /\ IF pc = "dead"
         THEN /\ closedErr' = closedErr \cup {submitted + 1}
              /\ UNCHANGED <<queue, pending>>
         ELSE IF Len(queue) < QueueCap /\ pending = <<>>
         THEN /\ queue' = Append(queue, submitted + 1)
              /\ UNCHANGED <<pending, closedErr>>
         ELSE /\ pending' = Append(pending, submitted + 1)
              /\ UNCHANGED <<queue, closedErr>>
    /\ UNCHANGED <<dropped, pc, elapsed, sinceTick, lock, state, tasks, batch,
                   sent, sendCalls, lastTick, appended,
                   cacheVars>>

\* A suspended tx.send gets the freed slot and completes.
SendResume ==
    /\ pending # <<>>
    /\ Len(queue) < QueueCap
    /\ queue' = Append(queue, Head(pending))
    /\ pending' = Tail(pending)
    /\ UNCHANGED <<submitted, closedErr, dropped, pc, elapsed, sinceTick, lock,
                   state, tasks, batch, sent, sendCalls, lastTick, appended,
                   cacheVars>>

\* ------------------------------------------------------------ consumer_loop
\* One second passes while select! waits.
Advance ==
    /\ pc = "select"
    /\ elapsed < RECEIVE_TIMEOUT
    /\ elapsed' = elapsed + 1
    /\ sinceTick' = IF sinceTick < MaxClock THEN sinceTick + 1 ELSE sinceTick
    /\ UNCHANGED <<submitted, queue, pending, closedErr, dropped, pc, lock, state,
                   tasks, batch, sent, sendCalls, lastTick, appended,
                   cacheVars>>

\* Variant: the sleep is created once, outside the loop, and keeps running.
Recv_KeepTimer ==
    /\ pc = "select"
    /\ queue # <<>>
    /\ Len(tasks) < MaxTasks
    /\ \E chat \in Chats :
         tasks' = Append(tasks,
                    [pc |-> "lock_wait",
                     msg |-> [id |-> Head(queue), chat |-> chat],
                     result |-> "none"])
    /\ queue' = Tail(queue)
    /\ UNCHANGED <<submitted, pending, closedErr, dropped, pc, elapsed, sinceTick,
                   lock, state, batch, sent, sendCalls, lastTick, appended,
                   cacheVars>>

\* Variant: the newest buffered message is taken instead of the oldest.
Recv_Lifo ==
    /\ pc = "select"
    /\ queue # <<>>
    /\ Len(tasks) < MaxTasks
    /\ \E chat \in Chats :
         tasks' = Append(tasks,
                    [pc |-> "lock_wait",
                     msg |-> [id |-> queue[Len(queue)], chat |-> chat],
                     result |-> "none"])
    /\ queue' = SubSeq(queue, 1, Len(queue) - 1)
    /\ elapsed' = 0
    /\ UNCHANGED <<submitted, pending, closedErr, dropped, pc, sinceTick, lock,
                   state, batch, sent, sendCalls, lastTick, appended,
                   cacheVars>>

\* select! branch Some(msg) = receiver.recv(): spawn the task, loop again,
\* which creates a new sleep(RECEIVE_TIMEOUT).  The message's chat is first
\* read by the task, so it is drawn here.
Recv ==
    /\ pc = "select"
    /\ queue # <<>>
    /\ Len(tasks) < MaxTasks
    /\ \E chat \in Chats :
         tasks' = Append(tasks,
                    [pc |-> "lock_wait",
                     msg |-> [id |-> Head(queue), chat |-> chat],
                     result |-> "none"])
    /\ queue' = Tail(queue)
    /\ elapsed' = 0
    /\ UNCHANGED <<submitted, pending, closedErr, dropped, pc, sinceTick, lock,
                   state, batch, sent, sendCalls, lastTick, appended,
                   cacheVars>>

\* select! branch sleep(..): the timer elapsed; state.lock().await comes next.
TimerElapsed ==
    /\ pc = "select"
    /\ elapsed = RECEIVE_TIMEOUT
    /\ pc' = "lock_wait"
    /\ sinceTick' = 0
    /\ UNCHANGED <<submitted, queue, pending, closedErr, dropped, elapsed, lock,
                   state, tasks, batch, sent, sendCalls, lastTick, appended,
                   cacheVars>>

\* Variant: the match arm taken whatever the fields hold.
TargetSet_Always(st) == TRUE

\* The pattern (Some(chat_id), Some(msg_id)).
TargetSet(st) == st.reply_chat_id # None /\ st.reply_message_id # None

\* Variant: the guard is released before the send instead of after the clear.
FlushLock_NoGuard ==
    /\ pc = "lock_wait"
    /\ lock = Unlocked
    /\ IF TargetSet(state)
         THEN /\ pc' = "sending"
              /\ sendCalls' = sendCalls + 1
              /\ lastTick' = "flush"
              /\ UNCHANGED <<lock, elapsed>>
         ELSE /\ pc' = "select"
              /\ elapsed' = 0
              /\ lastTick' = "noop"
              /\ UNCHANGED <<lock, sendCalls>>
    /\ UNCHANGED <<submitted, queue, pending, closedErr, dropped, sinceTick,
                   state, tasks, batch, sent, appended, cacheVars>>

\* state.lock().await returns; match (reply_chat_id, reply_message_id).
FlushLock ==
    /\ pc = "lock_wait"
    /\ lock = Unlocked
    /\ IF TargetSet(state)
         THEN /\ lock' = ConsumerHolds
              /\ pc' = "sending"
              /\ sendCalls' = sendCalls + 1
              /\ lastTick' = "flush"
              /\ UNCHANGED elapsed
         ELSE /\ pc' = "select"
              /\ elapsed' = 0
              /\ lastTick' = "noop"
              /\ UNCHANGED <<lock, sendCalls>>
    /\ UNCHANGED <<submitted, queue, pending, closedErr, dropped, sinceTick,
                   state, tasks, batch, sent, appended, cacheVars>>

\* Variant: reply_chat_id = None is left out of the clearing.
SendOk_KeepChat ==
    /\ pc = "sending"
    /\ sent' = Append(sent, [chat |-> state.reply_chat_id,
                             reply_to |-> state.reply_message_id,
                             text |-> Join(state.statics)])
    /\ state' = [EmptyState EXCEPT !.reply_chat_id = state.reply_chat_id]
    /\ batch' = <<>>
    /\ lock' = Unlocked
    /\ pc' = "select"
    /\ elapsed' = 0
    /\ UNCHANGED <<submitted, queue, pending, closedErr, dropped, sinceTick,
                   tasks, sendCalls, lastTick, appended, cacheVars>>

\* Variant: statics.clear() is left out of the clearing.
SendOk_KeepLines ==
    /\ pc = "sending"
    /\ sent' = Append(sent, [chat |-> state.reply_chat_id,
                             reply_to |-> state.reply_message_id,
                             text |-> Join(state.statics)])
    /\ state' = [EmptyState EXCEPT !.statics = state.statics]
    /\ batch' = <<>>
    /\ lock' = Unlocked
    /\ pc' = "select"
    /\ elapsed' = 0
    /\ UNCHANGED <<submitted, queue, pending, closedErr, dropped, sinceTick,
                   tasks, sendCalls, lastTick, appended, cacheVars>>

\* bot.send_message(..).reply_to(..).await returned Ok: clear, unlock, continue.
SendOk ==
    /\ pc = "sending"
    /\ sent' = Append(sent, [chat |-> state.reply_chat_id,
                             reply_to |-> state.reply_message_id,
                             text |-> Join(state.statics)])
    /\ state' = EmptyState
    /\ batch' = <<>>
    /\ lock' = Unlocked
    /\ pc' = "select"
    /\ elapsed' = 0
    /\ UNCHANGED <<submitted, queue, pending, closedErr, dropped, sinceTick,
                   tasks, sendCalls, lastTick, appended,
                   cacheVars>>

\* Variant: the error is logged and the loop continues.
SendFail_Continue ==
    /\ pc = "sending"
    /\ lock' = Unlocked
    /\ pc' = "select"
    /\ elapsed' = 0
    /\ UNCHANGED <<submitted, queue, pending, closedErr, dropped, sinceTick, state,
                   tasks, batch, sent, sendCalls, lastTick, appended,
                   cacheVars>>

\* Variant: the state is cleared before the send, so a failed send loses it.
SendFail_Clear ==
    /\ pc = "sending"
    /\ lock' = Unlocked
    /\ pc' = "dead"
    /\ state' = EmptyState
    /\ dropped' = dropped \cup Range(queue)
    /\ closedErr' = closedErr \cup Range(pending)
    /\ queue' = <<>>
    /\ pending' = <<>>
    /\ UNCHANGED <<submitted, elapsed, sinceTick, tasks, batch, sent,
                   sendCalls, lastTick, appended, cacheVars>>

\* The send returned Err: `?` drops the guard and returns from consumer_loop,
\* which drops the receiver: buffered messages are dropped, suspended sends fail.
SendFail ==
    /\ pc = "sending"
    /\ lock' = Unlocked
    /\ pc' = "dead"
    /\ dropped' = dropped \cup Range(queue)
    /\ closedErr' = closedErr \cup Range(pending)
    /\ queue' = <<>>
    /\ pending' = <<>>
    /\ UNCHANGED <<submitted, elapsed, sinceTick, state, tasks, batch, sent,
                   sendCalls, lastTick, appended,
                   cacheVars>>

\* ------------------------------------------------------------ spawned tasks
\* Variant: the chat id is assigned, the message id set with Option::or.
TaskLock_ChatOverwrite(i) ==
    /\ tasks[i].pc = "lock_wait"
    /\ lock = Unlocked
    /\ lock' = i
    /\ state' = [state EXCEPT
                   !.reply_message_id = OrOpt(@, tasks[i].msg.id),
                   !.reply_chat_id = tasks[i].msg.chat]
    /\ tasks' = [tasks EXCEPT ![i].pc = "downloading"]
    /\ batch' = Append(batch, i)
    /\ UNCHANGED <<submitted, queue, pending, closedErr, dropped, pc, elapsed,
                   sinceTick, sent, sendCalls, lastTick, appended, cacheVars>>

\* state.lock().await returns; the two reply fields are set with Option::or.
TaskLock(i) ==
    /\ tasks[i].pc = "lock_wait"
    /\ lock = Unlocked
    /\ lock' = i
    /\ state' = [state EXCEPT
                   !.reply_message_id = OrOpt(@, tasks[i].msg.id),
                   !.reply_chat_id = OrOpt(@, tasks[i].msg.chat)]
    /\ tasks' = [tasks EXCEPT ![i].pc = "downloading"]
    /\ batch' = Append(batch, i)
    /\ UNCHANGED <<submitted, queue, pending, closedErr, dropped, pc, elapsed,
                   sinceTick, sent, sendCalls, lastTick, appended,
                   cacheVars>>

\* download(bot, msg).await returns under the guard; push on Ok; guard dropped.
\* download is the first to read the message's media, so it is drawn here.
TaskDownload(i) ==
    /\ tasks[i].pc = "downloading"
    /\ \E kind \in Kinds, ioOk \in BOOLEAN :
         LET r == Download(tasks[i].msg, kind, ioOk) IN
         /\ state' = IF r.ok
                       THEN [state EXCEPT !.statics = Append(@, r.val)]
                       ELSE state
         /\ tasks' = [tasks EXCEPT ![i].pc = "done",
                                   ![i].result = IF r.ok THEN "ok" ELSE "err"]
         /\ appended' = IF r.ok THEN Append(appended, r.val) ELSE appended
    /\ lock' = Unlocked
    /\ UNCHANGED <<submitted, queue, pending, closedErr, dropped, pc, elapsed,
                   sinceTick, batch, sent, sendCalls, lastTick, cacheVars>>

Next ==
    \/ Submit
    \/ SendResume
    \/ Advance
    \/ Recv
    \/ TimerElapsed
    \/ FlushLock
    \/ SendOk
    \/ SendFail
    \/ \E i \in 1..MaxTasks : i <= Len(tasks) /\ TaskLock(i)
    \/ \E i \in 1..MaxTasks : i <= Len(tasks) /\ TaskDownload(i)

Spec == Init /\ [][Next]_vars

\* The runs in which every download returns Ok and every send returns Ok,
\* under the scheduling tokio gives: the timer elapses, spawned tasks are
\* polled, the mutex is handed over, the send returns.
TaskDownloadOk(i) == TaskDownload(i) /\ tasks'[i].result = "ok"

NextLive ==
    \/ Submit
    \/ SendResume
    \/ Advance
    \/ Recv
    \/ TimerElapsed
    \/ FlushLock
    \/ SendOk
    \/ \E i \in 1..MaxTasks : i <= Len(tasks) /\ TaskLock(i)
    \/ \E i \in 1..MaxTasks : i <= Len(tasks) /\ TaskDownloadOk(i)

Fairness ==
    /\ WF_vars(Advance)
    /\ WF_vars(TimerElapsed)
    /\ WF_vars(FlushLock)
    /\ WF_vars(SendOk)
    /\ \A i \in 1..MaxTasks : WF_vars(i <= Len(tasks) /\ TaskLock(i))
    /\ \A i \in 1..MaxTasks : WF_vars(i <= Len(tasks) /\ TaskDownloadOk(i))

SpecLive == Init /\ [][NextLive]_vars /\ Fairness

\* ------------------------------------------------------ media-group cache
\* enum MediaType { Photo(file_id), Video(file_id) }
Photo(f) == [type |-> "Photo", file |-> f]
Video(f) == [type |-> "Video", file |-> f]

\* Inbound messages as handle_media_group reads them: media_group_id(),
\* photo().last() and video(), each possibly absent.
GroupMsgs == [group : Groups \cup {None}, photo : Files \cup {None},
              video : Files \cup {None}]

\* Variant: cache.insert(id, vec![media]) in place of entry(id).or_insert_with.
ProcessMedia_Replace(c, group, media) ==
    IF group = None THEN c
    ELSE [g \in DOMAIN c \cup {group} |-> IF g = group THEN <<media>> ELSE c[g]]

\* process_media: with a group id, lock the cache, entry(id).or_insert_with(Vec::new),
\* push; without one, nothing.
ProcessMedia(c, group, media) ==
    IF group = None THEN c
    ELSE [g \in DOMAIN c \cup {group} |->
            IF g = group
              THEN Append(IF g \in DOMAIN c THEN c[g] ELSE <<>>, media)
              ELSE c[g]]

\* Variant: the closure with its comparison reversed.
Keep_Inverted(photos) == Len(photos) >= GroupThreshold

\* Variant: the closure off by one, keeping entries of exactly 2 members.
Keep_OffByOne(photos) == Len(photos) <= GroupThreshold

\* The closure given to retain in clean_cache.
Keep(photos) == Len(photos) < GroupThreshold

\* HashMap::retain
Retain(c) == [g \in {h \in DOMAIN c : Keep(c[h])} |-> c[g]]

\* The model stops recording into a group of MaxGroupLen members.
HasRoom(group) ==
    IF group = None \/ group \notin DOMAIN cache THEN TRUE
    ELSE Len(cache[group]) < MaxGroupLen

\* Ghost bookkeeping of one record.
Log(group, media) ==
    IF group = None THEN recorded
    ELSE [recorded EXCEPT ![group] = Append(@, media)]

\* Variant: the two branches made exclusive (else if), the video branch
\* skipped when the message has a photo.
HandleMediaGroup_Exclusive(m) ==
    /\ HasRoom(m.group)
    /\ IF m.photo # None
         THEN /\ cache' = ProcessMedia(cache, m.group, Photo(m.photo))
              /\ recorded' = Log(m.group, Photo(m.photo))
         ELSE /\ cache' = IF m.video # None
                            THEN ProcessMedia(cache, m.group, Video(m.video))
                            ELSE cache
              /\ recorded' = IF m.video # None
                               THEN Log(m.group, Video(m.video))
                               ELSE recorded
    /\ lastOp' = "record"
    /\ removed' = {}
    /\ lastStep' = [op |-> "handle", group |-> m.group, photo |-> m.photo,
                    video |-> m.video]
    /\ UNCHANGED <<inflight, consumerVars>>

\* handle_media_group up to the await of its video branch: the photo branch,
\* if any, has recorded; a message with both media suspends before the video.
HandleMediaGroup(m) ==
    /\ HasRoom(m.group)
    /\ IF m.photo # None
         THEN /\ cache' = ProcessMedia(cache, m.group, Photo(m.photo))
              /\ recorded' = Log(m.group, Photo(m.photo))
              /\ IF m.video # None /\ m.group # None
                   THEN /\ Cardinality(inflight) < MaxInflight
                        /\ [group |-> m.group, video |-> m.video] \notin inflight
                        /\ inflight' = inflight \cup {[group |-> m.group, video |-> m.video]}
                   ELSE UNCHANGED inflight
         ELSE /\ cache' = IF m.video # None
                            THEN ProcessMedia(cache, m.group, Video(m.video))
                            ELSE cache
              /\ recorded' = IF m.video # None
                               THEN Log(m.group, Video(m.video))
                               ELSE recorded
              /\ UNCHANGED inflight
    /\ lastOp' = "record"
    /\ removed' = {}
    /\ lastStep' = [op |-> "handle", group |-> m.group, photo |-> m.photo,
                    video |-> m.video]
    /\ UNCHANGED consumerVars

\* The video branch of a suspended handle_media_group.
HandleVideo(h) ==
    /\ h \in inflight
    /\ HasRoom(h.group)
    /\ cache' = ProcessMedia(cache, h.group, Video(h.video))
    /\ recorded' = Log(h.group, Video(h.video))
    /\ inflight' = inflight \ {h}
    /\ lastOp' = "record"
    /\ removed' = {}
    /\ lastStep' = [op |-> "video", group |-> h.group, photo |-> None,
                    video |-> h.video]
    /\ UNCHANGED consumerVars

\* One iteration of clean_cache after its sleep(30 s).
CleanCache ==
    /\ cache' = Retain(cache)
    /\ lastOp' = "sweep"
    /\ removed' = DOMAIN cache \ DOMAIN cache'
    /\ recorded' = [g \in Groups |-> IF g \in DOMAIN cache' THEN recorded[g] ELSE <<>>]
    /\ lastStep' = [op |-> "sweep", group |-> None, photo |-> None, video |-> None]
    /\ UNCHANGED <<inflight, consumerVars>>

NextCache ==
    \/ \E m \in GroupMsgs : HandleMediaGroup(m)
    \/ \E h \in [group : Groups, video : Files] : HandleVideo(h)
    \/ CleanCache

SpecCache == Init /\ [][NextCache]_vars

\* clean_cache is a loop around sleep(30 s): its iteration keeps coming.
SpecCacheFair == Init /\ [][NextCache]_vars /\ WF_vars(CleanCache)

\* ================================================================= claims
TaskIds == 1..Len(tasks)
BatchEmpty == state = EmptyState
SucceededIn(b) == {i \in Range(b) : tasks[i].result = "ok"}

\* C1: while a batch is open the reply target is the chat id and message id of
\* the task that locked BatchState first in it (later tasks do not overwrite
\* it), and the reply delivered by the next flush is addressed to that target
\* and has exactly one line per task of the batch whose fetch succeeded.
C1_BatchReply ==
    /\ [](batch # <<>> =>
            /\ state.reply_message_id = tasks[batch[1]].msg.id
            /\ state.reply_chat_id = tasks[batch[1]].msg.chat)
    /\ [][Len(sent') > Len(sent) =>
            /\ batch # <<>>
            /\ NumLines(sent'[Len(sent')].text) = Cardinality(SucceededIn(batch))
            /\ sent'[Len(sent')].reply_to = tasks[batch[1]].msg.id
            /\ sent'[Len(sent')].chat = tasks[batch[1]].msg.chat]_vars

\* C1 witness: two tasks succeeded in one batch, the second message's task
\* locked first, and the reply with two lines went to the second message.
C1_Witness ==
    /\ Len(sent) = 1
    /\ Len(tasks) = 2
    /\ \A i \in TaskIds : tasks[i].result = "ok"
    /\ NumLines(sent[1].text) = 2
    /\ sent[1].reply_to = 2
    /\ sent[1].chat = tasks[2].msg.chat
    /\ tasks[1].msg.chat # tasks[2].msg.chat

\* C2: when the only message submitted is one whose fetch failed, no reply is
\* sent and the batch is empty.
C2_FailedFetchNoReply ==
    (submitted = 1 /\ Len(tasks) = 1 /\ tasks[1].result = "err")
        => (sendCalls = 0 /\ sent = <<>> /\ BatchEmpty)

\* C3: whenever the BatchState lock is free, the reply target is None exactly
\* when there are no result lines.
C3_TargetIffLines ==
    lock = Unlocked =>
        ((state.reply_chat_id = None /\ state.reply_message_id = None)
            <=> state.statics = <<>>)

C5_DequeueKeepsTimer == [][Len(tasks') > Len(tasks) => elapsed' = elapsed]_vars

\* C5 (amended): dequeuing a message restarts the quiet period from zero, and
\* the timer branch is taken only when a whole period has passed since the last
\* dequeue or tick.
C5_DequeueRestartsTimer ==
    [][/\ Len(tasks') > Len(tasks) => elapsed' = 0
       /\ (pc = "select" /\ pc' = "lock_wait") => elapsed = RECEIVE_TIMEOUT]_vars

\* C5 witness: more than one period has passed since the last tick while a
\* non-empty batch waits, unlocked, for its flush.
C5_Witness ==
    /\ sinceTick > RECEIVE_TIMEOUT
    /\ pc = "select"
    /\ lock = Unlocked
    /\ state.statics # <<>>
    /\ elapsed < RECEIVE_TIMEOUT

\* C6: every reply is addressed to a message whose fetch succeeded.
C6_RepliesTargetSucceeded ==
    \A k \in 1..Len(sent) :
        \E i \in TaskIds : tasks[i].msg.id = sent[k].reply_to /\ tasks[i].result = "ok"

\* C7: no task is inside the Media Fetcher while it holds the BatchState lock.
C7_NoFetchUnderLock == \A i \in TaskIds : tasks[i].pc = "downloading" => lock # i

C9_SendFailureTerminates ==
    [][/\ (pc = "sending" /\ pc' # "sending" /\ sent' = sent) => pc' = "dead"
       /\ pc = "dead" =>
            /\ pc' = "dead"
            /\ Len(tasks') = Len(tasks)
            /\ queue' = queue
            /\ sent' = sent
            /\ sendCalls' = sendCalls]_vars

\* C9 witness: the loop has ended after a failed send while a task was still
\* waiting for the lock and messages were buffered.
C9_Witness ==
    /\ pc = "dead"
    /\ sent = <<>>
    /\ dropped # {}
    /\ \E i \in TaskIds : tasks[i].pc = "lock_wait"

\* C10: a timer branch that finds the reply target unset sends nothing and
\* leaves BatchState as it is; one that finds it set makes exactly one send
\* call; sends and replies come from nowhere else, at most one per tick.
C10_TickSendsIffTargetSet ==
    /\ [][(pc = "lock_wait" /\ pc' # "lock_wait") =>
            IF state.reply_chat_id # None /\ state.reply_message_id # None
              THEN pc' = "sending" /\ sendCalls' = sendCalls + 1 /\ state' = state
              ELSE /\ pc' = "select"
                   /\ state' = state
                   /\ sent' = sent
                   /\ sendCalls' = sendCalls
                   /\ lock' = lock]_vars
    /\ [][sendCalls' # sendCalls =>
            pc = "lock_wait" /\ state.reply_message_id # None]_vars
    /\ [][sent' # sent =>
            pc = "sending" /\ pc' = "select" /\ Len(sent') = Len(sent) + 1]_vars
    /\ [](Len(sent) = sendCalls - (IF pc \in {"sending", "dead"} THEN 1 ELSE 0))

\* C10 witness: after one delivered reply a later tick found the target unset
\* and did nothing.
C10_Witness ==
    /\ lastTick = "noop"
    /\ Len(sent) = 1
    /\ sendCalls = 1
    /\ pc = "select"
    /\ BatchEmpty

\* ---------------------------------------------------------------- C11..C19
\* The text of a reply cut back into its lines (the inverse of Join for
\* lines without a newline).
RECURSIVE LinesNE(_)
LinesNE(text) ==
    LET nls == {k \in 1..Len(text) : text[k] = NL} IN
    IF nls = {} THEN <<text>>
    ELSE LET k == CHOOSE j \in nls : \A h \in nls : j <= h IN
         <<SubSeq(text, 1, k - 1)>> \o LinesNE(SubSeq(text, k + 1, Len(text)))

Lines(text) == IF text = <<>> THEN <<>> ELSE LinesNE(text)

\* The lines of the first n replies, in delivery order.
RECURSIVE DeliveredUpTo(_)
DeliveredUpTo(n) ==
    IF n = 0 THEN <<>> ELSE DeliveredUpTo(n - 1) \o Lines(sent[n].text)

Delivered == DeliveredUpTo(Len(sent))

\* C11: BatchState is empty at start, and every delivered flush leaves it
\* empty in the state in which it releases the lock.
C11_EmptyAtStartAndAfterFlush ==
    /\ (state.reply_chat_id = None /\ state.reply_message_id = None
          /\ state.statics = <<>>)
    /\ [][Len(sent') > Len(sent) =>
            /\ lock = ConsumerHolds
            /\ lock' = Unlocked
            /\ state'.reply_chat_id = None
            /\ state'.reply_message_id = None
            /\ state'.statics = <<>>]_vars

\* C11 witness: a reply with a line has been delivered and BatchState is
\* empty and unlocked right after it.
C11_Witness ==
    /\ Len(sent) = 1
    /\ NumLines(sent[1].text) = 1
    /\ lastTick = "flush"
    /\ pc = "select"
    /\ elapsed = 0
    /\ lock = Unlocked
    /\ state.reply_chat_id = None
    /\ state.reply_message_id = None
    /\ state.statics = <<>>

\* C12: the flush holds the lock from its read to its clear, nothing is
\* appended in between, the reply carries exactly the lines held, and every
\* line ever appended is in exactly one reply or still in resultLines, in
\* append order.
C12_LinesDeliveredOnce ==
    /\ [](Delivered \o state.statics = appended)
    /\ [](pc = "sending" => lock = ConsumerHolds)
    /\ [][pc = "sending" =>
            \/ state' = state /\ sent' = sent
            \/ /\ Len(sent') = Len(sent) + 1
               /\ Lines(sent'[Len(sent')].text) = state.statics
               /\ state'.statics = <<>>]_vars

\* C12 witness: two lines were appended in two batches and each was
\* delivered in its own reply.
C12_Witness ==
    /\ Len(sent) = 2
    /\ Len(appended) = 2
    /\ Lines(sent[1].text) = <<appended[1]>>
    /\ Lines(sent[2].text) = <<appended[2]>>
    /\ state.statics = <<>>

\* C17: the queue never holds more than its capacity; messages leave it one
\* at a time, oldest first, and each starts exactly one task: the i-th task is
\* the task of the i-th message and the queue holds the next ones in order.
C17_FifoOneTaskEach ==
    /\ [](/\ Len(queue) <= QueueCap
          /\ \A i \in TaskIds : tasks[i].msg.id = i
          /\ \A k \in 1..Len(queue) : queue[k] = Len(tasks) + k)
    /\ [][Len(tasks') # Len(tasks) =>
            /\ pc = "select"
            /\ queue # <<>>
            /\ Len(tasks') = Len(tasks) + 1
            /\ SubSeq(tasks', 1, Len(tasks)) = tasks
            /\ tasks'[Len(tasks')].msg.id = Head(queue)
            /\ tasks'[Len(tasks')].pc = "lock_wait"
            /\ queue' = Tail(queue)]_vars

\* C17 witness: the first message has been dequeued into its task while the
\* queue is full with the next ones.
C17_Witness ==
    /\ Len(tasks) = 1
    /\ Len(queue) = QueueCap
    /\ Head(queue) = 2
    /\ pc = "select"

\* C18: with the lock free, reply_chat_id is set exactly when
\* reply_message_id is, and both are those of one dequeued message.
C18_TargetFromOneMessage ==
    lock = Unlocked =>
        /\ (state.reply_chat_id = None <=> state.reply_message_id = None)
        /\ state.reply_message_id # None =>
             \E i \in TaskIds : /\ tasks[i].msg.id = state.reply_message_id
                                /\ tasks[i].msg.chat = state.reply_chat_id

\* C18 witness: two messages of different chats are in one batch and the
\* target is the pair of the second message, whose task locked first.
C18_Witness ==
    /\ lock = Unlocked
    /\ batch = <<2, 1>>
    /\ tasks[1].msg.chat # tasks[2].msg.chat
    /\ state.reply_message_id = 2
    /\ state.reply_chat_id = tasks[2].msg.chat

\* C19: a failed send leaves BatchState as the flush found it; afterwards the
\* target stays set, lines are only added, no reply is delivered, and the
\* lines held are in no reply.
C19_FailedSendKeepsBatch ==
    /\ [][(pc = "sending" /\ pc' = "dead") => state' = state]_vars
    /\ [][pc = "dead" =>
            /\ sent' = sent
            /\ state'.reply_chat_id = state.reply_chat_id
            /\ state'.reply_message_id = state.reply_message_id
            /\ Len(state'.statics) >= Len(state.statics)
            /\ SubSeq(state'.statics, 1, Len(state.statics)) = state.statics]_vars
    /\ [](pc = "dead" =>
            /\ state.reply_chat_id # None
            /\ state.reply_message_id # None
            /\ Len(Delivered) + Len(state.statics) = Len(appended))

\* C19 witness: the only send failed and the two lines of its batch are still
\* in BatchState, undelivered.
C19_Witness ==
    /\ pc = "dead"
    /\ sent = <<>>
    /\ Len(state.statics) = 2
    /\ state.reply_message_id # None
    /\ lock = Unlocked

\* C13: when fetches and sends succeed, eventually and for good every
\* dequeued message's task is done, one line per task has been appended, all
\* appended lines have been delivered and BatchState is empty; and whenever the
\* first reply holds every line appended, it is the only reply.
C13_EventuallyDeliveredAndEmpty ==
    /\ <>[](/\ \A i \in TaskIds : tasks[i].pc = "done"
            /\ Len(appended) = Len(tasks)
            /\ Delivered = appended
            /\ state.reply_chat_id = None
            /\ state.reply_message_id = None
            /\ state.statics = <<>>)
    /\ []((Len(sent) >= 1 /\ Lines(sent[1].text) = appended) => Len(sent) = 1)

\* C13 witness: two messages were fetched before the first tick, one reply
\* delivered both lines, and a later tick found BatchState empty.
C13_Witness ==
    /\ Len(tasks) = 2
    /\ Len(appended) = 2
    /\ Len(sent) = 1
    /\ Lines(sent[1].text) = appended
    /\ lastTick = "noop"
    /\ state = EmptyState
    /\ lock = Unlocked

\* c2 is c with x added at the end of g's entry, the entry being created if
\* absent, and with every other entry as it was.
AppendedTo(c, c2, g, x) ==
    /\ DOMAIN c2 = DOMAIN c \cup {g}
    /\ \A h \in DOMAIN c : h # g => c2[h] = c[h]
    /\ Len(c2[g]) = (IF g \in DOMAIN c THEN Len(c[g]) ELSE 0) + 1
    /\ c2[g][Len(c2[g])] = x
    /\ \A k \in 1..(Len(c2[g]) - 1) : c2[g][k] = c[g][k]

Complete(c, g) == g \in DOMAIN c /\ Len(c[g]) >= 2

\* C14: a sweep removes every entry of exactly 2 members it finds, whatever is
\* recorded later, and with the sweep recurring every entry that has reached 2
\* members is eventually out of the cache.
C14_CompleteEntriesRemoved ==
    /\ [][lastOp' = "sweep" =>
            \A g \in Groups :
                (g \in DOMAIN cache /\ Len(cache[g]) = 2) => g \notin DOMAIN cache']_vars
    /\ \A g \in Groups : Complete(cache, g) ~> (g \notin DOMAIN cache)

\* C14 witness: both groups reached 2 members and one sweep removed both.
C14_Witness ==
    /\ lastOp = "sweep"
    /\ removed = {1, 2}
    /\ DOMAIN cache = {}

\* C15: a record under a group id adds exactly its item at the end of that
\* id's entry, creating the entry if absent, and changes no other entry; an
\* entry holds exactly the items recorded under its id, in record order; and
\* an entry becomes complete exactly at the record of its 2nd item.
C15_RecordAppends ==
    /\ [](\A g \in Groups :
            IF g \in DOMAIN cache THEN cache[g] = recorded[g]
            ELSE recorded[g] = <<>>)
    /\ [][(lastOp' = "record" /\ lastStep'.group # None
             /\ (lastStep'.photo # None \/ lastStep'.video # None)) =>
            AppendedTo(cache, cache', lastStep'.group,
                       IF lastStep'.photo # None THEN Photo(lastStep'.photo)
                       ELSE Video(lastStep'.video))]_vars
    /\ [][\A g \in Groups :
            (Complete(cache', g) /\ ~Complete(cache, g))
               <=> (Len(recorded[g]) = 1 /\ Len(recorded'[g]) = 2)]_vars

\* C15 witness: three items were recorded under group 1, photo, video, photo,
\* and one under group 2; both entries hold them in that order.
C15_Witness ==
    /\ DOMAIN cache = {1, 2}
    /\ cache[1] = <<Photo(1), Video(1), Photo(1)>>
    /\ cache[2] = <<Video(1)>>
    /\ lastOp = "record"

\* C16: handling a message without a group id, or without photo and video,
\* leaves the cache as it is; with a group id and one kind of media it adds
\* that one item; with both it adds the photo and leaves the video to be added
\* next by the same handler, which then adds exactly that video.
C16_OneRecordPerBranch ==
    /\ [][lastStep'.op = "handle" =>
            LET m == lastStep' IN
            IF m.group = None \/ (m.photo = None /\ m.video = None)
              THEN cache' = cache /\ inflight' = inflight
            ELSE IF m.photo # None
              THEN /\ AppendedTo(cache, cache', m.group, Photo(m.photo))
                   /\ IF m.video # None
                        THEN /\ [group |-> m.group, video |-> m.video] \notin inflight
                             /\ inflight' = inflight \cup
                                   {[group |-> m.group, video |-> m.video]}
                        ELSE inflight' = inflight
            ELSE /\ AppendedTo(cache, cache', m.group, Video(m.video))
                 /\ inflight' = inflight]_vars
    /\ [][lastStep'.op = "video" =>
            LET h == [group |-> lastStep'.group, video |-> lastStep'.video] IN
            /\ h \in inflight
            /\ inflight' = inflight \ {h}
            /\ AppendedTo(cache, cache', h.group, Video(h.video))]_vars
    /\ [][inflight' # inflight => lastStep'.op \in {"handle", "video"}]_vars

\* C16 witness: one message with a group id, a photo and a video has been
\* handled to its end: the entry holds the photo, then the video.
C16_Witness ==
    /\ lastStep.op = "video"
    /\ inflight = {}
    /\ DOMAIN cache = {1}
    /\ cache[1] = <<Photo(1), Video(1)>>

====
